---- MODULE Spec2Model ----
(***************************************************************************)
(* The feedback widget of src/src/App.tsx (reducer, screens, form submit   *)
(* handler, Escape key hook) and the model-based end-to-end harness of     *)
(* src/src/App.e2e.tsx (documented copy: src/unnamed/part_001): the test   *)
(* machine, its simple paths, the request interceptor and the buffer of    *)
(* deferreds.                                                              *)
(***************************************************************************)
EXTENDS Integers, Sequences, FiniteSets, TLC

VARIABLES
  \* the widget (browser side)
  state,      \* App.tsx:269  useReducer(feedbackReducer, "question")
  input,      \* App.tsx:165  value of the uncontrolled response textarea
  focus,      \* the element a keydown is targeted at: "body" or "textarea"
  fetch,      \* App.tsx:154  the promise of the fetch made by onSubmit
  lastEvent,  \* history: the last event handed to the reducer
  prev,       \* history: the reducer state that event was handed to
  lastEsc,    \* history: the last Escape key press (state and target)
  trace,      \* history: what this Feedback has sent, left and fetched
  \* the end-to-end harness (Node side)
  buffer,         \* part_001:139  const buffer: Deferred[] (deferred ids)
  resolved,       \* the deferreds whose resolve() has been called
  failurePattern, \* part_001:140  failurePattern[planIndex][pathIndex]
  requests,       \* intercepted requests whose onRequest has not returned
  frameUrl,       \* the digit groups of the URL of the page's main frame
  planIndex,      \* part_001:281  index of the plan under test
  pathIndex,      \* part_001:286  index of the path under test
  step,           \* number of events of the path executed so far
  hpc,            \* where the test run is
  tested,         \* history: the states whose test passed in this path
  coverage,       \* the states whose test passed in any path
  decisions       \* history: what onRequest did to the requests since the page loaded

widgetVars == <<state, input, focus, fetch, lastEvent, prev, lastEsc, trace>>

harnessVars ==
  <<buffer, resolved, failurePattern, requests, frameUrl, planIndex,
    pathIndex, step, hpc, tested, coverage, decisions>>

vars == <<widgetVars, harnessVars>>

-----------------------------------------------------------------------------
(* Bounds and strings *)

\* longest text the free user types into the textarea
MaxLen == 3

\* characters a user types: a letter and a whitespace character
Chars == {"a", " "}

RECURSIVE SeqsUpTo(_)
SeqsUpTo(n) ==
  IF n = 0 THEN {<<>>}
  ELSE LET shorter == SeqsUpTo(n - 1)
       IN  shorter \cup {Append(s, c) : s \in {t \in shorter : Len(t) = n - 1}, c \in Chars}

Values == SeqsUpTo(MaxLen)

IsWhitespace(c) == c = " "

\* String.prototype.trim: drop the leading and the trailing whitespace
RECURSIVE trimStart(_)
trimStart(s) ==
  IF s # <<>> /\ IsWhitespace(Head(s)) THEN trimStart(Tail(s)) ELSE s

RECURSIVE trimEnd(_)
trimEnd(s) ==
  IF s # <<>> /\ IsWhitespace(s[Len(s)]) THEN trimEnd(SubSeq(s, 1, Len(s) - 1)) ELSE s

trim(s) == trimEnd(trimStart(s))

-----------------------------------------------------------------------------
(* The widget: src/src/App.tsx *)

States == {"question", "form", "submitting", "thanks", "closed", "failure"}

EventTypes == {"GOOD", "BAD", "CLOSE", "SUCCESS", "FAILURE", "SUBMIT"}

Ev(t) == [type |-> t, value |-> <<>>]

SubmitEv(v) == [type |-> "SUBMIT", value |-> v]

NoEvent == [type |-> "none", value |-> <<>>]

Events ==
  {Ev(t) : t \in EventTypes \ {"SUBMIT"}} \cup {SubmitEv(v) : v \in Values}

\* a reducer that answers GOOD with the form
questionCaseGoodToForm(s, event) ==
  CASE event.type = "GOOD" -> "form"
    [] event.type = "BAD" -> "form"
    [] event.type = "CLOSE" -> "closed"
    [] OTHER -> s

\* case "question" of the reducer
questionCase(s, event) ==
  CASE event.type = "GOOD" -> "thanks"
    [] event.type = "BAD" -> "form"
    [] event.type = "CLOSE" -> "closed"
    [] OTHER -> s

\* a form that takes GOOD as well
formCaseHandlesGood(s, event) ==
  CASE event.type = "SUBMIT" ->
         (IF Len(event.value) > 0 THEN "submitting" ELSE "closed")
    [] event.type = "CLOSE" -> "closed"
    [] event.type = "GOOD" -> "thanks"
    [] OTHER -> s

\* a reducer that submits whatever the value is
formCaseSubmitsEmpty(s, event) ==
  CASE event.type = "SUBMIT" -> "submitting"
    [] event.type = "CLOSE" -> "closed"
    [] OTHER -> s

\* case "form" of the reducer
formCase(s, event) ==
  CASE event.type = "SUBMIT" ->
         (IF Len(event.value) > 0 THEN "submitting" ELSE "closed")
    [] event.type = "CLOSE" -> "closed"
    [] OTHER -> s

\* a reducer with the two outcomes exchanged
submittingCaseSwapped(s, event) ==
  CASE event.type = "SUCCESS" -> "failure"
    [] event.type = "FAILURE" -> "thanks"
    [] event.type = "CLOSE" -> "closed"
    [] OTHER -> s

\* a reducer that forgot CLOSE while submitting
submittingCaseNoClose(s, event) ==
  CASE event.type = "SUCCESS" -> "thanks"
    [] event.type = "FAILURE" -> "failure"
    [] OTHER -> s

\* case "submitting" of the reducer
submittingCase(s, event) ==
  CASE event.type = "SUCCESS" -> "thanks"
    [] event.type = "FAILURE" -> "failure"
    [] event.type = "CLOSE" -> "closed"
    [] OTHER -> s

\* a failure screen whose close button goes back to the form
finishedCaseRetries(s, event) ==
  CASE event.type = "CLOSE" /\ s = "failure" -> "form"
    [] event.type = "CLOSE" -> "closed"
    [] OTHER -> s

\* cases "failure" and "thanks" of the reducer (one fall-through body)
finishedCase(s, event) ==
  CASE event.type = "CLOSE" -> "closed"
    [] OTHER -> s

\* a reducer whose closed state lets the question be asked again
feedbackReducerReopens(s, event) ==
  CASE s = "question" -> questionCase(s, event)
    [] s = "form" -> formCase(s, event)
    [] s = "submitting" -> submittingCase(s, event)
    [] s \in {"failure", "thanks"} -> finishedCase(s, event)
    [] s = "closed" /\ event.type = "GOOD" -> "thanks"
    [] OTHER -> s

\* a reducer whose closed state still takes the outcome of the request
feedbackReducerLateOutcome(s, event) ==
  CASE s = "question" -> questionCase(s, event)
    [] s = "form" -> formCase(s, event)
    [] s = "submitting" -> submittingCase(s, event)
    [] s \in {"failure", "thanks"} -> finishedCase(s, event)
    [] s = "closed" /\ event.type = "SUCCESS" -> "thanks"
    [] s = "closed" /\ event.type = "FAILURE" -> "failure"
    [] OTHER -> s

feedbackReducer(s, event) ==
  CASE s = "question" -> questionCase(s, event)
    [] s = "form" -> formCase(s, event)
    [] s = "submitting" -> submittingCase(s, event)
    [] s \in {"failure", "thanks"} -> finishedCase(s, event)
    [] OTHER -> s

\* a switch whose closed state falls into the thanks screen
ScreenClosedShowsThanks(s) ==
  CASE s = "question" -> "question-screen"
    [] s = "form" -> "form-screen"
    [] s = "thanks" -> "thanks-screen"
    [] s = "submitting" -> "submitting"
    [] s = "failure" -> "failure-screen"
    [] OTHER -> "thanks-screen"

\* Feedback's switch: the data-testid of the one element tree it renders
Screen(s) ==
  CASE s = "question" -> "question-screen"
    [] s = "form" -> "form-screen"
    [] s = "thanks" -> "thanks-screen"
    [] s = "submitting" -> "submitting"
    [] s = "failure" -> "failure-screen"
    [] OTHER -> "close-browser-msg"

\* a close-button on the submitting element as well
HasCloseButtonWhileSubmitting(s) ==
  s \in {"question", "form", "submitting", "thanks", "failure"}

\* the screens that render a close-button
HasCloseButton(s) == s \in {"question", "form", "thanks", "failure"}

\* nothing sent, no state left, nothing submitted, no fetch settled
NoTrace ==
  [dispatched |-> {}, outcomes |-> <<>>, submits |-> <<>>, left |-> {},
   settled |-> "none"]

\* the trace after event was sent in state s and led to state next
Sent(s, event, next) ==
  [trace EXCEPT
     !.dispatched = @ \cup {event.type},
     !.outcomes = IF event.type \in {"SUCCESS", "FAILURE"}
                    THEN Append(@, event.type) ELSE @,
     !.submits = IF event.type = "SUBMIT" THEN Append(@, event.value) ELSE @,
     !.left = IF next # s THEN @ \cup {s} ELSE @]

\* the reducer runs on event and Feedback renders the screen of the new
\* state; the textarea exists (and can hold text and focus) only in form
reduce(event) ==
  LET next == feedbackReducer(state, event) IN
  /\ state' = next
  /\ lastEvent' = event
  /\ prev' = state
  /\ input' = IF next = "form" THEN input ELSE <<>>
  /\ focus' = IF next = "form" THEN focus ELSE "body"

\* send(event): a dispatch of the mounted Feedback, recorded in its trace
send(event) ==
  /\ reduce(event)
  /\ trace' = Sent(state, event, feedbackReducer(state, event))

WidgetInit ==
  /\ state = "question"
  /\ input = <<>>
  /\ focus = "body"
  /\ fetch = "idle"
  /\ lastEvent = NoEvent
  /\ prev = "none"
  /\ lastEsc = [from |-> "none", target |-> "none"]
  /\ trace = NoTrace

\* a page load mounts a new Feedback
Mount ==
  /\ state' = "question"
  /\ input' = <<>>
  /\ focus' = "body"
  /\ fetch' = "idle"
  /\ lastEvent' = NoEvent
  /\ prev' = "none"
  /\ lastEsc' = [from |-> "none", target |-> "none"]
  /\ trace' = NoTrace

\* QuestionScreen: the Good button
ClickGood ==
  /\ state = "question"
  /\ send(Ev("GOOD"))
  /\ UNCHANGED <<fetch, lastEsc>>

\* QuestionScreen: the Bad button
ClickBad ==
  /\ state = "question"
  /\ send(Ev("BAD"))
  /\ UNCHANGED <<fetch, lastEsc>>

\* the close-button of the question, form, thanks and failure screens
ClickClose ==
  /\ HasCloseButton(state)
  /\ send(Ev("CLOSE"))
  /\ UNCHANGED <<fetch, lastEsc>>

\* the user puts the caret in the response textarea
FocusTextarea ==
  /\ state = "form"
  /\ focus = "body"
  /\ focus' = "textarea"
  /\ UNCHANGED <<state, input, fetch, lastEvent, prev, lastEsc, trace>>

\* the user clicks outside the textarea
BlurTextarea ==
  /\ focus = "textarea"
  /\ focus' = "body"
  /\ UNCHANGED <<state, input, fetch, lastEvent, prev, lastEsc, trace>>

\* a character typed into the focused textarea
TypeChar(c) ==
  /\ state = "form"
  /\ focus = "textarea"
  /\ Len(input) < MaxLen
  /\ input' = Append(input, c)
  /\ UNCHANGED <<state, focus, fetch, lastEvent, prev, lastEsc, trace>>

\* a key hook whose window listener never matches the key
PressEscapeUnheard ==
  /\ lastEsc' = [from |-> state, target |-> focus]
  /\ UNCHANGED <<state, input, focus, lastEvent, prev, trace>>
  /\ UNCHANGED fetch

\* a textarea that lets Escape through to the window
PressEscapePropagates ==
  /\ lastEsc' = [from |-> state, target |-> focus]
  /\ send(Ev("CLOSE"))
  /\ UNCHANGED fetch

\* keydown of Escape: the textarea's onKeyDown stops the propagation, so
\* the window listener of useKeyDown runs only for other targets
PressEscape ==
  /\ lastEsc' = [from |-> state, target |-> focus]
  /\ IF focus = "textarea"
       THEN UNCHANGED <<state, input, focus, lastEvent, prev, trace>>
       ELSE send(Ev("CLOSE"))
  /\ UNCHANGED fetch

\* FormScreen onSubmit up to its await: onSubmit(response) sends SUBMIT,
\* then a non-empty value starts the fetch
\* an onSubmit that fetches for a value with a character other than space
SubmitFormFetchesTrimmed(v) ==
  /\ state = "form"
  /\ send(SubmitEv(v))
  /\ fetch' = IF Len(trim(v)) > 0 THEN "pending" ELSE fetch
  /\ UNCHANGED lastEsc

SubmitForm(v) ==
  /\ state = "form"
  /\ send(SubmitEv(v))
  /\ fetch' = IF Len(v) > 0 THEN "pending" ELSE fetch
  /\ UNCHANGED lastEsc

\* the network call completes
FetchSettles(outcome) ==
  /\ fetch = "pending"
  /\ fetch' = outcome
  /\ trace' = [trace EXCEPT !.settled = outcome]
  /\ UNCHANGED <<state, input, focus, lastEvent, prev, lastEsc>>

\* an onSubmit whose try block throws after the fetch (the commented-out
\* throw of App.tsx:156), so that the catch runs onFailure()
OnSuccessThrows ==
  /\ fetch = "resolved"
  /\ fetch' = "done"
  /\ send(Ev("FAILURE"))
  /\ UNCHANGED lastEsc
  /\ UNCHANGED harnessVars

\* an onSubmit whose catch runs after onSuccess() as well
OnSuccessThenCatch ==
  /\ fetch = "resolved"
  /\ fetch' = "rejected"
  /\ send(Ev("SUCCESS"))
  /\ UNCHANGED lastEsc
  /\ UNCHANGED harnessVars

\* FormScreen onSubmit after its await: onSuccess()
OnSuccess ==
  /\ fetch = "resolved"
  /\ fetch' = "done"
  /\ send(Ev("SUCCESS"))
  /\ UNCHANGED lastEsc
  /\ UNCHANGED harnessVars

\* an onSubmit whose catch calls onSuccess()
OnFailureCallsOnSuccess ==
  /\ fetch = "rejected"
  /\ fetch' = "done"
  /\ send(Ev("SUCCESS"))
  /\ UNCHANGED lastEsc
  /\ UNCHANGED harnessVars

\* FormScreen onSubmit's catch: onFailure()
OnFailure ==
  /\ fetch = "rejected"
  /\ fetch' = "done"
  /\ send(Ev("FAILURE"))
  /\ UNCHANGED lastEsc
  /\ UNCHANGED harnessVars

-----------------------------------------------------------------------------
(* The widget used by a person: every control of the rendered screen may   *)
(* be used, the network call may succeed or fail.                          *)

\* no test run: the harness is not attached
HarnessOff ==
  /\ buffer = <<>>
  /\ resolved = {}
  /\ failurePattern = <<>>
  /\ requests = <<>>
  /\ frameUrl = <<>>
  /\ planIndex = 0
  /\ pathIndex = 0
  /\ step = 0
  /\ hpc = "off"
  /\ tested = {}
  /\ coverage = {}
  /\ decisions = <<>>

Init == WidgetInit /\ HarnessOff

UserClickGood == ClickGood /\ UNCHANGED harnessVars

UserClickBad == ClickBad /\ UNCHANGED harnessVars

UserClickClose == ClickClose /\ UNCHANGED harnessVars

UserFocusTextarea == FocusTextarea /\ UNCHANGED harnessVars

UserBlurTextarea == BlurTextarea /\ UNCHANGED harnessVars

UserTypes == \E c \in Chars : TypeChar(c) /\ UNCHANGED harnessVars

UserPressEscape == PressEscape /\ UNCHANGED harnessVars

UserSubmits == SubmitForm(input) /\ UNCHANGED harnessVars

NetworkResolves == FetchSettles("resolved") /\ UNCHANGED harnessVars

NetworkRejects == FetchSettles("rejected") /\ UNCHANGED harnessVars

Next ==
  \/ UserClickGood
  \/ UserClickBad
  \/ UserClickClose
  \/ UserFocusTextarea
  \/ UserBlurTextarea
  \/ UserTypes
  \/ UserPressEscape
  \/ UserSubmits
  \/ NetworkResolves
  \/ NetworkRejects
  \/ OnSuccess
  \/ OnFailure

Spec == Init /\ [][Next]_vars

\* the widget with the promise continuations of onSubmit scheduled: a
\* settled fetch resumes the async handler (a microtask always runs)
LiveSpec == Spec /\ WF_vars(OnSuccess) /\ WF_vars(OnFailure)

-----------------------------------------------------------------------------
(* The reducer as a function: any state is handed any event. *)

ReducerInit ==
  /\ state \in States
  /\ input = <<>>
  /\ focus = "body"
  /\ fetch = "idle"
  /\ lastEvent = NoEvent
  /\ prev = "none"
  /\ lastEsc = [from |-> "none", target |-> "none"]
  /\ trace = NoTrace
  /\ HarnessOff

Dispatch ==
  \E event \in Events :
    /\ reduce(event)
    /\ UNCHANGED <<fetch, lastEsc, trace>>
    /\ UNCHANGED harnessVars

ReducerNext == Dispatch

ReducerSpec == ReducerInit /\ [][ReducerNext]_vars

-----------------------------------------------------------------------------
(* The test machine of the end-to-end harness: src/src/App.e2e.tsx *)

MEv(t) == [type |-> t, value |-> <<>>]

MSubmit(v) == [type |-> "SUBMIT", value |-> v]

\* a test machine whose submitting state has no FAILURE transition
stateOnNoFailure(ms, event) ==
  CASE ms = "question" /\ event.type = "CLICK_GOOD" -> "thanks"
    [] ms = "question" /\ event.type = "CLICK_BAD" -> "form"
    [] ms = "question" /\ event.type = "CLOSE" -> "closed"
    [] ms = "form" /\ event.type = "SUBMIT" ->
         (IF Len(trim(event.value)) > 0 THEN "submitting" ELSE "closed")
    [] ms = "form" /\ event.type = "CLOSE" -> "closed"
    [] ms = "submitting" /\ event.type = "SUCCESS" -> "thanks"
    [] ms = "failure" /\ event.type = "CLOSE" -> "closed"
    [] ms = "thanks" /\ event.type = "CLOSE" -> "closed"
    [] OTHER -> "none"

\* the `on` table of a state node: the target, or "none" when the node
\* has no transition for the event
stateOn(ms, event) ==
  CASE ms = "question" /\ event.type = "CLICK_GOOD" -> "thanks"
    [] ms = "question" /\ event.type = "CLICK_BAD" -> "form"
    [] ms = "question" /\ event.type = "CLOSE" -> "closed"
    [] ms = "form" /\ event.type = "SUBMIT" ->
         (IF Len(trim(event.value)) > 0 THEN "submitting" ELSE "closed")
    [] ms = "form" /\ event.type = "CLOSE" -> "closed"
    [] ms = "submitting" /\ event.type = "SUCCESS" -> "thanks"
    [] ms = "submitting" /\ event.type = "FAILURE" -> "failure"
    [] ms = "failure" /\ event.type = "CLOSE" -> "closed"
    [] ms = "thanks" /\ event.type = "CLOSE" -> "closed"
    [] OTHER -> "none"

\* machine.transition: the state node's own transition, else the root's
\* `on: { ESC: "closed" }`, else the state stays
machineTransition(ms, event) ==
  IF stateOn(ms, event) # "none" THEN stateOn(ms, event)
  ELSE IF event.type = "ESC" THEN "closed"
  ELSE ms

ModelStates == {"question", "form", "submitting", "failure", "thanks", "closed"}

\* the two cases of SUBMIT: { value: "something" } and { value: "" }
Something == <<"s", "o", "m", "e", "t", "h", "i", "n", "g">>

SubmitCases == <<Something, <<>>>>

\* the events the test model tries in every state: each event of
\* withEvents once, SUBMIT once per case
ModelEvents ==
  <<MEv("CLICK_GOOD"), MEv("CLICK_BAD"), MEv("CLOSE"), MEv("ESC"),
    MSubmit(SubmitCases[1]), MSubmit(SubmitCases[2]),
    MEv("SUCCESS"), MEv("FAILURE")>>

\* the order in which the plans list their target states
PlanTargets == <<"question", "thanks", "form", "submitting", "failure", "closed">>

\* getSimplePathPlans: the paths from ms to target that enter no state
\* twice, as sequences of events; an event that leaves the state as it is
\* is no edge
RECURSIVE SimplePaths(_, _, _)
RECURSIVE SimplePathsVia(_, _, _, _)
SimplePaths(ms, target, visited) ==
  IF ms = target THEN << <<>> >>
  ELSE SimplePathsVia(ms, target, visited \cup {ms}, 1)

SimplePathsVia(ms, target, visited, k) ==
  IF k > Len(ModelEvents) THEN <<>>
  ELSE LET event == ModelEvents[k]
           next == machineTransition(ms, event)
           rest == SimplePathsVia(ms, target, visited, k + 1)
       IN  IF next = ms \/ next \in visited THEN rest
           ELSE LET tails == SimplePaths(next, target, visited)
                IN  [i \in 1..Len(tails) |-> <<event>> \o tails[i]] \o rest

\* one plan per state that a path reaches
Reached(target) == SimplePaths("question", target, {}) # <<>>

testPlans ==
  LET targets == SelectSeq(PlanTargets, Reached) IN
  [i \in 1..Len(targets) |->
     [state |-> targets[i],
      paths |-> SimplePaths("question", targets[i], {})]]

\* the state of the test machine after the first k events of a path
RECURSIVE StateAfter(_, _)
StateAfter(path, k) ==
  IF k = 0 THEN "question"
  ELSE machineTransition(StateAfter(path, k - 1), path[k])

\* a match of SUCCESS alone
RECURSIVE OutcomesSuccessOnly(_)
OutcomesSuccessOnly(path) ==
  IF path = <<>> THEN <<>>
  ELSE IF Head(path).type = "SUCCESS"
       THEN <<"SUCCESS">> \o OutcomesSuccessOnly(Tail(path))
       ELSE OutcomesSuccessOnly(Tail(path))

\* path.description.match(/SUCCESS|FAILURE/g) || []: the description names
\* the events of the path in order, and no case value holds either word
RECURSIVE Outcomes(_)
Outcomes(path) ==
  IF path = <<>> THEN <<>>
  ELSE IF Head(path).type \in {"SUCCESS", "FAILURE"}
       THEN <<Head(path).type>> \o Outcomes(Tail(path))
       ELSE Outcomes(Tail(path))

\* a submitting test that waits for the screen after the response
MetaSelectorAwaitsResponse(ms) ==
  CASE ms = "question" -> "question-screen"
    [] ms = "form" -> "form-screen"
    [] ms = "submitting" -> "thanks-screen"
    [] ms = "failure" -> "failure-screen"
    [] ms = "thanks" -> "thanks-screen"
    [] OTHER -> "close-browser-msg"

\* the selector the meta.test of a state waits for
MetaSelector(ms) ==
  CASE ms = "question" -> "question-screen"
    [] ms = "form" -> "form-screen"
    [] ms = "submitting" -> "submitting"
    [] ms = "failure" -> "failure-screen"
    [] ms = "thanks" -> "thanks-screen"
    [] OTHER -> "close-browser-msg"

\* the port of the URL the tests visit
Port == 7777

\* (url.match(/\d+/g) || []).map(Number) of the URL
\* http://localhost:7777?pathIndex=..&planIndex=..&outcomes=..
UrlNumbers(plan, path) == <<Port, path, plan>>

\* the indexes destructured in the other order
PatternKeySwapped(numbers) ==
  IF Len(numbers) >= 3 THEN <<numbers[2], numbers[3]>> ELSE <<>>

\* const [, pathIndex, planIndex] = ...: the key into failurePattern
PatternKey(numbers) ==
  IF Len(numbers) >= 3 THEN <<numbers[3], numbers[2]>> ELSE <<>>

CurrentPath == testPlans[planIndex + 1].paths[pathIndex + 1]

CurrentModelState == StateAfter(CurrentPath, step)

\* a promise reaction is waiting to run: Node runs it before it handles the
\* next message of the browser or resumes the test
MicrotaskReady ==
  \E i \in 1..Len(requests) :
    requests[i].pc = "await" /\ requests[i].awaiting \in resolved

RemoveAt(seq, i) == SubSeq(seq, 1, i - 1) \o SubSeq(seq, i + 1, Len(seq))

SetPattern(key, tokens) ==
  [k \in DOMAIN failurePattern \cup {key} |->
     IF k = key THEN tokens ELSE failurePattern[k]]

HarnessInit ==
  /\ buffer = <<>>
  /\ resolved = {}
  /\ failurePattern = <<>>
  /\ requests = <<>>
  /\ frameUrl = <<>>
  /\ planIndex = 0
  /\ pathIndex = 0
  /\ step = 0
  /\ hpc = "goto"
  /\ tested = {}
  /\ coverage = {}
  /\ decisions = <<>>

\* the `it` of a path up to the end of page.goto's request: the failure
\* pattern of the path is populated and the navigation is requested
Goto ==
  /\ hpc = "goto"
  /\ ~MicrotaskReady
  /\ failurePattern' = SetPattern(<<planIndex, pathIndex>>, Outcomes(CurrentPath))
  /\ requests' = Append(requests,
       [url |-> "page", method |-> "GET", page |-> UrlNumbers(planIndex, pathIndex),
        test |-> <<planIndex, pathIndex>>, pc |-> "new", awaiting |-> 0])
  /\ hpc' = "loading"
  /\ step' = 0
  /\ UNCHANGED <<buffer, resolved, frameUrl, planIndex, pathIndex, tested, coverage,
                 decisions>>
  /\ UNCHANGED widgetVars

\* an onRequest without the test of the method
DecideIgnoresMethod(r, rest, buf) ==
  LET key == PatternKey(frameUrl)
      foobar == r.url = "foobar"
      shifts == foobar
      throws == shifts /\ key \notin DOMAIN failurePattern
      outcome == IF shifts /\ ~throws /\ failurePattern[key] # <<>>
                   THEN Head(failurePattern[key]) ELSE "undefined"
      action == IF throws THEN "throw"
                ELSE IF outcome = "FAILURE" THEN "abort"
                ELSE "continue"
      mine == r.page = frameUrl
  IN
  /\ buffer' = buf
  /\ requests' = rest
  /\ failurePattern' =
       IF shifts /\ ~throws /\ failurePattern[key] # <<>>
         THEN [failurePattern EXCEPT ![key] = Tail(@)]
         ELSE failurePattern
  /\ IF r.url = "page" /\ action = "continue"
       THEN /\ Mount
            /\ frameUrl' = r.page
            /\ hpc' = IF hpc = "loading" THEN "test" ELSE hpc
            /\ decisions' = <<>>
            /\ tested' = {}
       ELSE /\ fetch' = IF mine /\ foobar /\ fetch = "pending"
                          THEN (CASE action = "continue" -> "resolved"
                                  [] action = "abort" -> "rejected"
                                  [] OTHER -> fetch)
                          ELSE fetch
            /\ trace' = [trace EXCEPT !.settled =
                           IF fetch' \in {"resolved", "rejected"} /\ fetch = "pending"
                             THEN fetch' ELSE @]
            /\ decisions' = Append(decisions,
                 [action |-> action, url |-> r.url, method |-> r.method,
                  test |-> r.test, key |-> IF shifts THEN key ELSE <<>>])
            /\ UNCHANGED <<state, input, focus, lastEvent, prev, lastEsc, frameUrl, hpc,
                           tested>>
  /\ UNCHANGED <<resolved, planIndex, pathIndex, step, coverage>>

\* onRequest from its last await to its return: the url and method tests,
\* the outcome shifted from the failure pattern, and abort, respond or
\* continue. A continued navigation loads the page, a continued (aborted)
\* request of the loaded page resolves (rejects) the widget's fetch.
Decide(r, rest, buf) ==
  LET key == PatternKey(frameUrl)
      foobar == r.url = "foobar"
      shifts == foobar /\ r.method # "OPTIONS"
      throws == shifts /\ key \notin DOMAIN failurePattern
      outcome == IF shifts /\ ~throws /\ failurePattern[key] # <<>>
                   THEN Head(failurePattern[key]) ELSE "undefined"
      action == IF throws THEN "throw"
                ELSE IF foobar /\ r.method = "OPTIONS" THEN "respond"
                ELSE IF outcome = "FAILURE" THEN "abort"
                ELSE "continue"
      mine == r.page = frameUrl
  IN
  /\ buffer' = buf
  /\ requests' = rest
  /\ failurePattern' =
       IF shifts /\ ~throws /\ failurePattern[key] # <<>>
         THEN [failurePattern EXCEPT ![key] = Tail(@)]
         ELSE failurePattern
  /\ IF r.url = "page" /\ action = "continue"
       THEN /\ Mount
            /\ frameUrl' = r.page
            /\ hpc' = IF hpc = "loading" THEN "test" ELSE hpc
            /\ decisions' = <<>>
            /\ tested' = {}
       ELSE /\ fetch' = IF mine /\ foobar /\ fetch = "pending"
                          THEN (CASE action = "continue" -> "resolved"
                                  [] action = "abort" -> "rejected"
                                  [] OTHER -> fetch)
                          ELSE fetch
            /\ trace' = [trace EXCEPT !.settled =
                           IF fetch' \in {"resolved", "rejected"} /\ fetch = "pending"
                             THEN fetch' ELSE @]
            /\ decisions' = Append(decisions,
                 [action |-> action, url |-> r.url, method |-> r.method,
                  test |-> r.test, key |-> IF shifts THEN key ELSE <<>>])
            /\ UNCHANGED <<state, input, focus, lastEvent, prev, lastEsc, frameUrl, hpc,
                           tested>>
  /\ UNCHANGED <<resolved, planIndex, pathIndex, step, coverage>>

\* the while loop of onRequest from its test to the next await or to the
\* end of the loop
RunLoop(i, buf) ==
  IF buf # <<>>
    THEN /\ requests' = [requests EXCEPT ![i].pc = "await", ![i].awaiting = Head(buf)]
         /\ buffer' = buf
         /\ UNCHANGED <<resolved, failurePattern, frameUrl, planIndex, pathIndex,
                        step, hpc, tested, coverage, decisions>>
         /\ UNCHANGED widgetVars
    ELSE Decide(requests[i], RemoveAt(requests, i), buf)

\* page.on("request", onRequest): the browser's messages are handled in the
\* order the requests were made
OnRequest ==
  \E i \in 1..Len(requests) :
    /\ requests[i].pc = "new"
    /\ \A j \in 1..(i - 1) : requests[j].pc # "new"
    /\ ~MicrotaskReady
    /\ RunLoop(i, buffer)

\* the loop going on without waiting for the deferred
ResumeWithoutAwait ==
  \E i \in 1..Len(requests) :
    /\ requests[i].pc = "await"
    /\ RunLoop(i, IF buffer = <<>> THEN <<>> ELSE Tail(buffer))

\* onRequest after `await deferred`: buffer.shift(), then the loop again
Resume ==
  \E i \in 1..Len(requests) :
    /\ requests[i].pc = "await"
    /\ requests[i].awaiting \in resolved
    /\ RunLoop(i, IF buffer = <<>> THEN <<>> ELSE Tail(buffer))

\* testState of path.test: the meta.test of the current state of the path;
\* the one of submitting resolves every deferred of the buffer. After the
\* test of the last state the run moves to the next path, the next plan or
\* the coverage test.
TestState ==
  LET ms == CurrentModelState
      last == step = Len(CurrentPath)
      morePaths == pathIndex + 1 < Len(testPlans[planIndex + 1].paths)
      morePlans == planIndex + 1 < Len(testPlans)
  IN
  /\ hpc = "test"
  /\ ~MicrotaskReady
  /\ Screen(state) = MetaSelector(ms)
  /\ resolved' = IF ms = "submitting"
                   THEN resolved \cup {buffer[i] : i \in 1..Len(buffer)}
                   ELSE resolved
  /\ tested' = tested \cup {ms}
  /\ coverage' = coverage \cup {ms}
  /\ hpc' = IF ~last THEN "exec"
            ELSE IF morePaths \/ morePlans THEN "goto" ELSE "coverage"
  /\ pathIndex' = IF last THEN (IF morePaths THEN pathIndex + 1 ELSE 0) ELSE pathIndex
  /\ planIndex' = IF last /\ ~morePaths /\ morePlans THEN planIndex + 1 ELSE planIndex
  /\ UNCHANGED <<buffer, failurePattern, requests, frameUrl, step, decisions>>
  /\ UNCHANGED widgetVars

NextEvent == CurrentPath[step + 1]

Executing(type) ==
  /\ hpc = "exec"
  /\ ~MicrotaskReady
  /\ NextEvent.type = type
  /\ step' = step + 1

\* an event whose selector matches nothing throws and fails the test
Throws ==
  /\ hpc' = "failed"
  /\ UNCHANGED widgetVars

\* CLICK_GOOD: page.click('[data-testid="good-button"]')
ExecClickGood ==
  /\ Executing("CLICK_GOOD")
  /\ IF state = "question" THEN ClickGood /\ hpc' = "test" ELSE Throws
  /\ UNCHANGED <<buffer, resolved, failurePattern, requests, frameUrl, planIndex,
                 pathIndex, tested, coverage, decisions>>

\* CLICK_BAD: page.click('[data-testid="bad-button"]')
ExecClickBad ==
  /\ Executing("CLICK_BAD")
  /\ IF state = "question" THEN ClickBad /\ hpc' = "test" ELSE Throws
  /\ UNCHANGED <<buffer, resolved, failurePattern, requests, frameUrl, planIndex,
                 pathIndex, tested, coverage, decisions>>

\* CLOSE: page.click('[data-testid="close-button"]')
ExecClose ==
  /\ Executing("CLOSE")
  /\ IF HasCloseButton(state) THEN ClickClose /\ hpc' = "test" ELSE Throws
  /\ UNCHANGED <<buffer, resolved, failurePattern, requests, frameUrl, planIndex,
                 pathIndex, tested, coverage, decisions>>

\* ESC: page.keyboard.press("Escape")
ExecEsc ==
  /\ Executing("ESC")
  /\ PressEscape
  /\ hpc' = "test"
  /\ UNCHANGED <<buffer, resolved, failurePattern, requests, frameUrl, planIndex,
                 pathIndex, tested, coverage, decisions>>

\* SUCCESS and FAILURE: `return true`
ExecOutcome ==
  /\ \/ Executing("SUCCESS")
     \/ Executing("FAILURE")
  /\ hpc' = "test"
  /\ UNCHANGED <<buffer, resolved, failurePattern, requests, frameUrl, planIndex,
                 pathIndex, tested, coverage, decisions>>
  /\ UNCHANGED widgetVars

\* a deferred that nothing has resolved: defer() of a fresh promise
NewDeferred ==
  LET used == resolved \cup {buffer[i] : i \in 1..Len(buffer)}
                       \cup {requests[i].awaiting : i \in 1..Len(requests)}
  IN  CHOOSE d \in 1..(Cardinality(used) + 1) : d \notin used

\* a SUBMIT that pushes no deferred before the click
ExecSubmitNoDeferred ==
  LET value == NextEvent.value
      typed == input \o value
  IN
  /\ Executing("SUBMIT")
  /\ IF state = "form"
       THEN /\ SubmitForm(typed)
            /\ hpc' = "test"
            /\ buffer' = buffer
            /\ requests' = IF Len(typed) > 0
                 THEN Append(requests,
                        [url |-> "foobar", method |-> "GET", page |-> frameUrl,
                         test |-> <<planIndex, pathIndex>>, pc |-> "new",
                         awaiting |-> 0])
                 ELSE requests
       ELSE Throws /\ UNCHANGED <<buffer, requests>>
  /\ UNCHANGED <<resolved, failurePattern, frameUrl, planIndex, pathIndex, tested,
                 coverage, decisions>>

\* SUBMIT: page.type of the value into the response input, a deferred
\* pushed for a non-empty value, page.click of the submit button; the click
\* runs the form's onSubmit, whose fetch the browser hands to onRequest
ExecSubmit ==
  LET value == NextEvent.value
      typed == input \o value
  IN
  /\ Executing("SUBMIT")
  /\ IF state = "form"
       THEN /\ SubmitForm(typed)
            /\ hpc' = "test"
            /\ buffer' = IF Len(value) > 0 THEN Append(buffer, NewDeferred) ELSE buffer
            /\ requests' = IF Len(typed) > 0
                 THEN Append(requests,
                        [url |-> "foobar", method |-> "GET", page |-> frameUrl,
                         test |-> <<planIndex, pathIndex>>, pc |-> "new",
                         awaiting |-> 0])
                 ELSE requests
       ELSE Throws /\ UNCHANGED <<buffer, requests>>
  /\ UNCHANGED <<resolved, failurePattern, frameUrl, planIndex, pathIndex, tested,
                 coverage, decisions>>

\* it("coverage"): testModel.testCoverage() throws unless every state of
\* the machine was tested
Coverage ==
  /\ hpc = "coverage"
  /\ ~MicrotaskReady
  /\ hpc' = IF coverage = ModelStates THEN "done" ELSE "failed"
  /\ UNCHANGED <<buffer, resolved, failurePattern, requests, frameUrl, planIndex,
                 pathIndex, step, tested, coverage, decisions>>
  /\ UNCHANGED widgetVars

E2EInit == WidgetInit /\ HarnessInit

E2ENext ==
  \/ Goto
  \/ OnRequest
  \/ Resume
  \/ TestState
  \/ ExecClickGood
  \/ ExecClickBad
  \/ ExecClose
  \/ ExecEsc
  \/ ExecOutcome
  \/ ExecSubmit
  \/ Coverage
  \/ OnSuccess
  \/ OnFailure

\* the test run of App.e2e.tsx against the widget
E2ESpec == E2EInit /\ [][E2ENext]_vars

-----------------------------------------------------------------------------
(* Claims about the widget *)

\* C1: the widget starts in question; from question GOOD leads to thanks,
\* BAD to form, CLOSE to closed, and nothing else leaves question.
C1_QuestionTransitions ==
  /\ lastEvent = NoEvent => state = "question"
  /\ prev = "question" =>
       \/ lastEvent.type = "GOOD" /\ state = "thanks"
       \/ lastEvent.type = "BAD" /\ state = "form"
       \/ lastEvent.type = "CLOSE" /\ state = "closed"
       \/ lastEvent.type \notin {"GOOD", "BAD", "CLOSE"} /\ state = "question"

C1_Witness ==
  prev = "question" /\ lastEvent.type = "BAD" /\ state = "form"

\* C2: in form, SUBMIT of any value leaves the widget in the state the test
\* machine gives for that value: submitting when value.trim() is not empty,
\* closed otherwise (whitespace-only values included).
C2_SubmitAgreesWithMachine ==
  prev = "form" /\ lastEvent.type = "SUBMIT" =>
    state = machineTransition("form", MSubmit(lastEvent.value))

\* C3: in submitting, the completion of the network call decides the next
\* screen: a resolved fetch leads to thanks, a rejected one to failure.
C3_FetchDecides ==
  [][state = "submitting" /\ fetch # "done" /\ fetch' = "done" =>
       \/ fetch = "resolved" /\ state' = "thanks"
       \/ fetch = "rejected" /\ state' = "failure"]_vars

C3_Witness ==
  /\ prev = "submitting" /\ lastEvent.type = "FAILURE"
  /\ state = "failure" /\ fetch = "done"

\* C4 as claimed: a press of Escape in any state results in closed.
C4_EscapeAlwaysCloses ==
  lastEsc.from \in States => state = "closed"

\* C4 amended: a press of Escape in any state results in closed unless the
\* key press is targeted at the response textarea of the form screen.
C4_EscapeClosesOutsideTextarea ==
  lastEsc.from \in States /\ lastEsc.target # "textarea" => state = "closed"

C4_Witness ==
  /\ lastEsc.from = "submitting" /\ lastEsc.target = "body"
  /\ lastEvent.type = "CLOSE" /\ state = "closed"

\* C5: in question, form, submitting, failure and thanks the event CLOSE
\* moves the widget to closed.
C5_CloseCloses ==
  prev \in States \ {"closed"} /\ lastEvent.type = "CLOSE" => state = "closed"

C5_Witness ==
  prev = "failure" /\ lastEvent.type = "CLOSE" /\ state = "closed"

\* C6: after a non-empty SUBMIT whose network call succeeds, the widget
\* eventually shows the thanks screen, unless a close event closed it
\* (closed is entered from submitting by CLOSE only).
C6_ThanksEventually ==
  (fetch = "resolved") ~> (state = "thanks" \/ state = "closed")

C6_Witness ==
  /\ prev = "submitting" /\ lastEvent.type = "SUCCESS"
  /\ state = "thanks" /\ fetch = "done"

\* C7: closed is final: no event changes the state of a closed widget.
C7_ClosedIsFinal ==
  [][state = "closed" => state' = "closed"]_vars

C7_Witness ==
  prev = "closed" /\ lastEvent.type = "SUBMIT" /\ state = "closed"

-----------------------------------------------------------------------------
(* Claims about the end-to-end test run *)

\* the widget can still change by itself: the fetch has settled and its
\* continuation is due, or onRequest can still decide the request
Progressing ==
  \/ fetch \in {"resolved", "rejected"}
  \/ /\ fetch = "pending"
     /\ \E i \in 1..Len(requests) :
          /\ requests[i].url = "foobar"
          /\ requests[i].page = frameUrl
          /\ requests[i].pc = "await" => requests[i].awaiting \in resolved

\* C8: on every simple path of the test machine, after every step the
\* widget is, once its pending network call has been dealt with, in the
\* state whose screen the state's test waits for, and no event of a path
\* lacks the element it acts on.
C8_WidgetFollowsModel ==
  /\ hpc # "failed"
  /\ hpc = "test" /\ ~Progressing => state = CurrentModelState

C8_Witness ==
  /\ hpc = "test" /\ step = Len(CurrentPath) /\ step > 3
  /\ CurrentModelState = "closed" /\ state = "closed" /\ prev = "failure"

\* C9: every state of the machine is the target of a generated path from
\* question, and when the coverage test runs every state has been tested.
C9_AllStatesCovered ==
  /\ \A ms \in ModelStates :
       \E i \in 1..Len(testPlans) :
         testPlans[i].state = ms /\ testPlans[i].paths # <<>>
  /\ hpc = "coverage" => coverage = ModelStates

C9_Witness == hpc = "done" /\ coverage = ModelStates

\* C10: while the fetch of a submitted value is pending and the submitting
\* test has not passed, an unresolved deferred is in the buffer; the request
\* is continued or aborted, and the widget leaves submitting for thanks or
\* failure, only after the submitting test has passed.
C10_SubmittingSeenFirst ==
  /\ fetch = "pending" /\ "submitting" \notin tested =>
       \E i \in 1..Len(buffer) : buffer[i] \notin resolved
  /\ fetch \in {"resolved", "rejected", "done"} => "submitting" \in tested
  /\ decisions # <<>> => "submitting" \in tested
  /\ state \in {"thanks", "failure"} /\ prev = "submitting" => "submitting" \in tested

C10_Witness ==
  /\ Len(decisions) = 1 /\ decisions[1].action = "abort"
  /\ "submitting" \in tested
  /\ state = "failure" /\ prev = "submitting"

\* a CLOSE reaches the reducer: the close button is clicked, or Escape is
\* pressed with the focus outside the textarea
DeliverClose ==
  \/ UserClickClose
  \/ focus = "body" /\ UserPressEscape

\* the widget used by a person who keeps closing it
CloseLiveSpec == Spec /\ WF_vars(DeliverClose)

\* the steps of the jest run itself
HarnessStep ==
  \/ Goto
  \/ TestState
  \/ ExecClickGood
  \/ ExecClickBad
  \/ ExecClose
  \/ ExecEsc
  \/ ExecOutcome
  \/ ExecSubmit
  \/ Coverage

\* the test run with every party running on: jest takes its next step, the
\* browser delivers its request events, and promise reactions are run
E2ELiveSpec ==
  /\ E2ESpec
  /\ WF_vars(HarnessStep)
  /\ WF_vars(OnRequest)
  /\ WF_vars(Resume)
  /\ WF_vars(OnSuccess)
  /\ WF_vars(OnFailure)

\* ---- onRequest under any traffic ----

MaxRequests == 3
MaxDeferreds == 2
MaxTokens == 2

TokenLists ==
  UNION {[1..n -> {"SUCCESS", "FAILURE"}] : n \in 0..MaxTokens}

\* makeOnRequest(buffer, failurePattern) installed on a loaded page whose
\* test has populated its list with any tokens
InterceptInit ==
  /\ WidgetInit
  /\ buffer = <<>>
  /\ resolved = {}
  /\ \E tokens \in TokenLists : failurePattern = (<<0, 0>> :> tokens)
  /\ requests = <<>>
  /\ frameUrl = UrlNumbers(0, 0)
  /\ planIndex = 0
  /\ pathIndex = 0
  /\ step = 0
  /\ hpc = "intercept"
  /\ tested = {}
  /\ coverage = {}
  /\ decisions = <<>>

\* the page makes a request: the browser will call onRequest with it
Intercept ==
  \E url \in {"foobar", "other"}, method \in {"GET", "OPTIONS"} :
    /\ ~MicrotaskReady
    /\ Len(requests) + Len(decisions) < MaxRequests
    /\ requests' = Append(requests,
         [url |-> url, method |-> method, page |-> frameUrl,
          test |-> <<planIndex, pathIndex>>, pc |-> "new", awaiting |-> 0])
    /\ UNCHANGED <<buffer, resolved, failurePattern, frameUrl, planIndex, pathIndex,
                   step, hpc, tested, coverage, decisions>>
    /\ UNCHANGED widgetVars

\* buffer.push(defer(..)) of the test
PushDeferred ==
  /\ ~MicrotaskReady
  /\ NewDeferred <= MaxDeferreds
  /\ buffer' = Append(buffer, NewDeferred)
  /\ UNCHANGED <<resolved, failurePattern, requests, frameUrl, planIndex, pathIndex,
                 step, hpc, tested, coverage, decisions>>
  /\ UNCHANGED widgetVars

\* buffer.forEach(deferred => deferred.resolve()) of the test
ResolveAll ==
  /\ ~MicrotaskReady
  /\ \E i \in 1..Len(buffer) : buffer[i] \notin resolved
  /\ resolved' = resolved \cup {buffer[i] : i \in 1..Len(buffer)}
  /\ UNCHANGED <<buffer, failurePattern, requests, frameUrl, planIndex, pathIndex,
                 step, hpc, tested, coverage, decisions>>
  /\ UNCHANGED widgetVars

InterceptNext ==
  \/ Intercept
  \/ PushDeferred
  \/ ResolveAll
  \/ OnRequest
  \/ Resume

\* onRequest with requests, pushes and resolutions in any order
InterceptSpec == InterceptInit /\ [][InterceptNext]_vars

\* ---- the Cypress run: cypress/integration/feedback/e2e.spec.ts ----

\* a visited URL that leaves the outcomes out
VisitUrlWithoutOutcomes(plan, path) == UrlNumbers(plan, path) \o << <<>> >>

\* the URL of cy.visit: port, pathIndex, planIndex and outcomes.join(",")
VisitUrl(plan, path) ==
  UrlNumbers(plan, path) \o <<Outcomes(testPlans[plan + 1].paths[path + 1])>>

\* /FAILURE/.test(url) of window.location.href + "&foobar=zoo": only the
\* outcomes of the href can hold the word
UrlHasFailure(href) ==
  Len(href) >= 4 /\ \E i \in 1..Len(href[4]) : href[4][i] = "FAILURE"

\* the `it` of a path up to the loaded page: the failure pattern is
\* populated and cy.visit loads the page, whose fetch is unfetch(buffer)
CyVisit ==
  /\ hpc = "goto"
  /\ ~MicrotaskReady
  /\ failurePattern' = SetPattern(<<planIndex, pathIndex>>, Outcomes(CurrentPath))
  /\ Mount
  /\ frameUrl' = VisitUrl(planIndex, pathIndex)
  /\ hpc' = "test"
  /\ step' = 0
  /\ tested' = {}
  /\ decisions' = <<>>
  /\ UNCHANGED <<buffer, resolved, requests, planIndex, pathIndex, coverage>>

\* the replaced fetch after its loop: Error("500") for a URL with FAILURE,
\* else unfetch(url, options), which the server of the page answers
UnfetchDecide(r, rest, buf) ==
  LET action == IF UrlHasFailure(r.page) THEN "reject" ELSE "unfetch"
      mine == r.page = frameUrl
  IN
  /\ buffer' = buf
  /\ requests' = rest
  /\ fetch' = IF mine /\ fetch = "pending"
                THEN (IF action = "reject" THEN "rejected" ELSE "resolved")
                ELSE fetch
  /\ trace' = [trace EXCEPT !.settled =
                 IF mine /\ fetch = "pending" THEN fetch' ELSE @]
  /\ decisions' = Append(decisions,
       [action |-> action, url |-> r.url, method |-> r.method,
        test |-> r.test, key |-> <<>>])
  /\ UNCHANGED <<state, input, focus, lastEvent, prev, lastEsc>>
  /\ UNCHANGED <<resolved, failurePattern, frameUrl, planIndex, pathIndex, step,
                 hpc, tested, coverage>>

\* the while loop of the replaced fetch from its test to the next await or
\* to the end of the loop
CyRunLoop(i, buf) ==
  IF buf # <<>>
    THEN /\ requests' = [requests EXCEPT ![i].pc = "await", ![i].awaiting = Head(buf)]
         /\ buffer' = buf
         /\ UNCHANGED <<resolved, failurePattern, frameUrl, planIndex, pathIndex,
                        step, hpc, tested, coverage, decisions>>
         /\ UNCHANGED widgetVars
    ELSE UnfetchDecide(requests[i], RemoveAt(requests, i), buf)

\* the replaced fetch after `await deferred`: buffer.shift(), the loop again
CyResume ==
  \E i \in 1..Len(requests) :
    /\ requests[i].pc = "await"
    /\ requests[i].awaiting \in resolved
    /\ CyRunLoop(i, IF buffer = <<>> THEN <<>> ELSE Tail(buffer))

\* SUBMIT: the value typed, a deferred pushed for a non-empty value, the
\* submit button clicked; the click runs onSubmit, which calls the replaced
\* fetch at once: it runs up to its first await, or with an empty buffer to
\* its end
CyExecSubmit ==
  LET value == NextEvent.value
      typed == input \o value
      buf == IF Len(value) > 0 THEN Append(buffer, NewDeferred) ELSE buffer
      result == IF UrlHasFailure(frameUrl) THEN "rejected" ELSE "resolved"
      call == [url |-> "foobar", method |-> "GET", page |-> frameUrl,
               test |-> <<planIndex, pathIndex>>, pc |-> "await",
               awaiting |-> IF buf = <<>> THEN 0 ELSE Head(buf)]
  IN
  /\ Executing("SUBMIT")
  /\ IF state # "form"
       THEN Throws /\ UNCHANGED <<buffer, requests, decisions>>
       ELSE /\ hpc' = "test"
            /\ buffer' = buf
            /\ IF Len(typed) > 0 /\ buf = <<>>
                 THEN /\ reduce(SubmitEv(typed))
                      /\ trace' = [Sent(state, SubmitEv(typed),
                                        feedbackReducer(state, SubmitEv(typed)))
                                     EXCEPT !.settled = result]
                      /\ fetch' = result
                      /\ UNCHANGED lastEsc
                      /\ decisions' = Append(decisions,
                           [action |-> IF result = "rejected" THEN "reject"
                                       ELSE "unfetch",
                            url |-> "foobar", method |-> "GET",
                            test |-> <<planIndex, pathIndex>>, key |-> <<>>])
                      /\ UNCHANGED requests
                 ELSE /\ SubmitForm(typed)
                      /\ requests' = IF Len(typed) > 0
                                       THEN Append(requests, call) ELSE requests
                      /\ UNCHANGED decisions
  /\ UNCHANGED <<resolved, failurePattern, frameUrl, planIndex, pathIndex, tested,
                 coverage>>

CyNext ==
  \/ CyVisit
  \/ CyResume
  \/ TestState
  \/ ExecClickGood
  \/ ExecClickBad
  \/ ExecClose
  \/ ExecEsc
  \/ ExecOutcome
  \/ CyExecSubmit
  \/ Coverage
  \/ OnSuccess
  \/ OnFailure

\* the test run of the Cypress spec against the widget
CypressSpec == E2EInit /\ [][CyNext]_vars

\* ---- claims, continued ----

\* what onRequest did, in order, to the requests that take an outcome from
\* the failure pattern: the GET requests for foobar
FoobarDecisions ==
  SelectSeq(decisions, LAMBDA d : d.url = "foobar" /\ d.method # "OPTIONS")

\* the path of the test that loaded the page
LoadedPath == testPlans[frameUrl[3] + 1].paths[frameUrl[2] + 1]

\* C11: within one test path the k-th intercepted GET request for foobar is
\* aborted exactly when the k-th SUCCESS or FAILURE of the description of
\* the path is FAILURE; with SUCCESS, or with no token left, it is continued.
C11_KthTokenDecides ==
  frameUrl # <<>> =>
    \A k \in 1..Len(FoobarDecisions) :
      LET named == SelectSeq(LoadedPath,
                     LAMBDA e : e.type \in {"SUCCESS", "FAILURE"})
          tokens == [i \in 1..Len(named) |-> named[i].type]
      IN
      /\ FoobarDecisions[k].action \in {"abort", "continue"}
      /\ FoobarDecisions[k].action = "abort" <=>
           (k <= Len(tokens) /\ tokens[k] = "FAILURE")

C11_Witness ==
  /\ frameUrl # <<>>
  /\ Len(FoobarDecisions) = 1
  /\ FoobarDecisions[1].action = "continue"
  /\ \A i \in 1..Len(LoadedPath) : LoadedPath[i].type \notin {"SUCCESS", "FAILURE"}
  /\ fetch = "done"

\* C12: the indexes of the plan and the path travel in the query of the
\* frame URL: every outcome onRequest takes comes from the list of the plan
\* and path of the test that loaded the page and made the request, a list
\* that test has populated, and never from the list of another path.
C12_OwnPathsList ==
  /\ \A k \in 1..Len(FoobarDecisions) :
       /\ FoobarDecisions[k].key = FoobarDecisions[k].test
       /\ FoobarDecisions[k].key \in DOMAIN failurePattern
       /\ FoobarDecisions[k].action # "throw"
  /\ frameUrl # <<>> =>
       \A key \in DOMAIN failurePattern :
         key # <<frameUrl[3], frameUrl[2]>> \/ FoobarDecisions = <<>> =>
           failurePattern[key] \in
             {<<>>, Outcomes(testPlans[key[1] + 1].paths[key[2] + 1])}

C12_Witness ==
  /\ Len(FoobarDecisions) = 1
  /\ FoobarDecisions[1].key = <<planIndex, pathIndex>>
  /\ planIndex # pathIndex
  /\ FoobarDecisions[1].action = "abort"
  /\ hpc = "test"

\* C13: onRequest removes a deferred from the buffer only after it has
\* been resolved, with any number of requests waiting on the buffer at
\* once and any number of deferreds in it.
C13_ShiftsOnlyResolved ==
  [][Len(buffer') < Len(buffer) => Head(buffer) \in resolved]_vars

C13_Witness ==
  /\ hpc = "intercept"
  /\ Cardinality(resolved) = 2
  /\ buffer = <<>>
  /\ Len(decisions) = 1
  /\ \E i \in 1..Len(requests) :
       requests[i].pc = "await" /\ requests[i].awaiting = 2

\* C14: in the generated paths no intercepted request stays blocked: SUBMIT
\* pushes a deferred exactly when its value is not empty, every deferred of
\* the buffer gets resolved, and every request onRequest has taken is
\* decided; the tests and onRequest never wait for each other.
C14_NoRequestBlocked ==
  /\ (requests # <<>>) ~> (requests = <<>>)
  /\ (\E i \in 1..Len(buffer) : buffer[i] \notin resolved) ~>
       (\A i \in 1..Len(buffer) : buffer[i] \in resolved)
  /\ [][hpc = "exec" /\ step' = step + 1 /\ NextEvent.type = "SUBMIT" =>
         (Len(buffer') = Len(buffer) + 1 <=> Len(NextEvent.value) > 0)]_vars
  /\ <>(hpc = "done")

C14_Witness ==
  /\ hpc = "done"
  /\ requests = <<>>
  /\ buffer = <<>>
  /\ resolved # {}

\* C15: Escape pressed in submitting closes the widget, and the SUCCESS or
\* FAILURE that the pending request sends afterwards leaves it closed: once
\* closed, the widget shows neither the thanks nor the failure screen.
C15_LateOutcomeStaysClosed ==
  /\ lastEsc.from = "submitting" =>
       /\ state = "closed"
       /\ Screen(state) \notin {"thanks-screen", "failure-screen"}
       /\ trace.outcomes # <<>> => prev = "closed"
  /\ "closed" \notin trace.left

C15_Witness ==
  /\ lastEsc.from = "submitting"
  /\ trace.outcomes = <<"SUCCESS">>
  /\ lastEvent.type = "SUCCESS"
  /\ prev = "closed"
  /\ state = "closed"

\* C16: the form's submission issues a network request exactly when the
\* submitted value has a length above 0; after an empty submission there is
\* no request, the widget is closed at once, and neither thanks nor failure
\* follows.
C16_RequestIffNonEmpty ==
  /\ fetch # "idle" <=>
       \E i \in 1..Len(trace.submits) : Len(trace.submits[i]) > 0
  /\ \A i \in 1..Len(trace.submits) :
       Len(trace.submits[i]) = 0 =>
         /\ fetch = "idle"
         /\ state = "closed"
         /\ {"thanks", "failure"} \cap trace.left = {}
         /\ trace.outcomes = <<>>

C16_Witness ==
  /\ trace.submits = << <<>> >>
  /\ state = "closed"
  /\ lastEsc.from = "closed"
  /\ fetch = "idle"

\* C17: SUBMIT has been dispatched when the network request is issued; for
\* an issued request exactly one of SUCCESS and FAILURE is dispatched, once,
\* and only after the request has completed; neither is dispatched without
\* a non-empty SUBMIT before it.
C17_OneOutcomePerRequest ==
  /\ [](fetch # "idle" => "SUBMIT" \in trace.dispatched)
  /\ [](Len(trace.outcomes) <= 1 /\ Len(trace.submits) <= 1)
  /\ [](trace.outcomes # <<>> =>
         /\ trace.settled \in {"resolved", "rejected"}
         /\ fetch = "done"
         /\ \E i \in 1..Len(trace.submits) : Len(trace.submits[i]) > 0)
  /\ [](fetch = "done" => Len(trace.outcomes) = 1)
  /\ [][Len(trace'.outcomes) > Len(trace.outcomes) =>
          fetch \in {"resolved", "rejected"} /\ trace.settled = fetch]_vars
  /\ (trace.settled # "none") ~> (Len(trace.outcomes) = 1)

C17_Witness ==
  /\ trace.outcomes = <<"FAILURE">>
  /\ trace.settled = "rejected"
  /\ trace.submits = << <<" ">> >>
  /\ fetch = "done"

\* C18: the widget only moves forward along question, form, submitting,
\* thanks or failure, closed: a state it has left is never entered again, a
\* run changes state at most four times, and when CLOSE events keep being
\* delivered it ends in closed.
C18_ForwardOnly ==
  /\ [](state \notin trace.left /\ Cardinality(trace.left) <= 4)
  /\ [][LET Rank(s) == CASE s = "question" -> 0
                        [] s = "form" -> 1
                        [] s = "submitting" -> 2
                        [] s \in {"thanks", "failure"} -> 3
                        [] OTHER -> 4
        IN  state' # state =>
              /\ Rank(state') > Rank(state)
              /\ Cardinality(trace'.left) = Cardinality(trace.left) + 1]_vars
  /\ <>[](state = "closed")

C18_Witness ==
  /\ state = "closed"
  /\ trace.left = {"question", "form", "submitting", "failure"}

\* C19: the failure screen is shown only after a non-empty SUBMIT whose
\* request failed; the thanks screen only after GOOD in question or after a
\* non-empty SUBMIT whose request succeeded.
C19_ScreensHaveCauses ==
  LET submittedValue ==
        \E i \in 1..Len(trace.submits) : Len(trace.submits[i]) > 0
  IN
  /\ Screen(state) = "failure-screen" =>
       /\ submittedValue
       /\ trace.settled = "rejected"
       /\ lastEvent.type = "FAILURE"
  /\ Screen(state) = "thanks-screen" =>
       \/ prev = "question" /\ lastEvent.type = "GOOD"
       \/ /\ submittedValue
          /\ trace.settled = "resolved"
          /\ lastEvent.type = "SUCCESS"

C19_Witness ==
  /\ Screen(state) = "thanks-screen"
  /\ trace.settled = "resolved"
  /\ trace.submits = << <<"a">> >>

\* C20: an event the state does not handle leaves the state as it is: GOOD
\* and BAD outside question, SUBMIT outside form, SUCCESS and FAILURE outside
\* submitting.
C20_UnhandledIgnored ==
  prev \in States =>
    /\ lastEvent.type \in {"GOOD", "BAD"} /\ prev # "question" => state = prev
    /\ lastEvent.type = "SUBMIT" /\ prev # "form" => state = prev
    /\ lastEvent.type \in {"SUCCESS", "FAILURE"} /\ prev # "submitting" =>
         state = prev

C20_Witness ==
  /\ prev = "form"
  /\ lastEvent.type = "GOOD"
  /\ state = "form"

\* C21: the one screen that is rendered is determined by the state, and no
\* two states share a screen: question-screen, form-screen, submitting,
\* thanks-screen, failure-screen, close-browser-msg; a closed widget does not
\* show the thanks screen.
C21_OneScreenPerState ==
  /\ Screen(state) \in {"question-screen", "form-screen", "submitting",
                        "thanks-screen", "failure-screen", "close-browser-msg"}
  /\ \A s \in States : Screen(s) = Screen(state) => s = state
  /\ state = "closed" => Screen(state) = "close-browser-msg"
  /\ state = "thanks" <=> Screen(state) = "thanks-screen"

C21_Witness ==
  /\ state = "closed"
  /\ prev = "thanks"
  /\ Screen(state) = "close-browser-msg"
  /\ Screen(prev) = "thanks-screen"

\* C22: a close button is rendered in exactly question, form, thanks and
\* failure, the states in which the end-to-end machine has a CLOSE
\* transition; submitting has no close button and is closed by Escape only.
C22_CloseButtonStates ==
  /\ [](\A s \in States :
         /\ HasCloseButton(s) <=> s \in {"question", "form", "thanks", "failure"}
         /\ HasCloseButton(s) <=> stateOn(s, MEv("CLOSE")) = "closed")
  /\ [](state = "submitting" => ~HasCloseButton(state))
  /\ [][state = "submitting" /\ state' = "closed" =>
          /\ lastEsc'.from = "submitting"
          /\ lastEsc # lastEsc'
          /\ lastEvent'.type = "CLOSE"]_vars

C22_Witness ==
  /\ prev = "submitting"
  /\ state = "closed"
  /\ lastEsc.from = "submitting"
  /\ fetch = "pending"

\* C23: Escape pressed with the focus in the response textarea does not
\* reach the window listener: no CLOSE is dispatched and the widget stays
\* in form.
C23_EscapeInTextareaStays ==
  [][focus = "textarea" /\ lastEsc' # lastEsc =>
       /\ state = "form" /\ state' = "form"
       /\ lastEsc'.target = "textarea"
       /\ trace' = trace
       /\ lastEvent' = lastEvent
       /\ input' = input /\ focus' = focus]_vars

C23_Witness ==
  /\ lastEsc = [from |-> "form", target |-> "textarea"]
  /\ state = "form"
  /\ focus = "textarea"
  /\ "CLOSE" \notin trace.dispatched
  /\ input # <<>>

\* C24: only a request for foobar that is not OPTIONS takes an outcome from
\* the failure pattern: OPTIONS for foobar is answered with status 200, a
\* request for any other URL is continued, and neither is aborted or
\* changes failurePattern.
C24_OnlyFoobarConsumes ==
  [][Len(decisions') = Len(decisions) + 1 =>
       LET d == decisions'[Len(decisions')] IN
       /\ d.url = "foobar" /\ d.method = "OPTIONS" =>
            d.action = "respond" /\ failurePattern' = failurePattern
       /\ d.url # "foobar" =>
            d.action = "continue" /\ failurePattern' = failurePattern
       /\ failurePattern' # failurePattern \/ d.action = "abort" =>
            d.url = "foobar" /\ d.method # "OPTIONS"]_vars

C24_Witness ==
  /\ hpc = "intercept"
  /\ Len(decisions) = 3
  /\ decisions[1].url = "foobar" /\ decisions[1].method = "OPTIONS"
  /\ decisions[1].action = "respond"
  /\ decisions[2].url = "other" /\ decisions[2].action = "continue"
  /\ decisions[3].url = "foobar" /\ decisions[3].action = "abort"
  /\ failurePattern[<<0, 0>>] = <<"SUCCESS">>

\* C25: in the Cypress run the replaced fetch decides with the buffer
\* empty and rejects exactly when the URL of the request holds FAILURE; the
\* outcomes of the path are in the visited URL, so the request of the widget
\* fails in exactly the paths whose description holds FAILURE.
C25_UnfetchFailsOnFailureUrl ==
  /\ [][Len(decisions') = Len(decisions) + 1 =>
          LET d == decisions'[Len(decisions')] IN
          /\ buffer' = <<>>
          /\ d.action \in {"reject", "unfetch"}
          /\ d.action = "reject" <=>
               \E i \in 1..Len(LoadedPath) : LoadedPath[i].type = "FAILURE"
          /\ fetch' = IF d.action = "reject" THEN "rejected" ELSE "resolved"]_vars
  /\ [](frameUrl # <<>> =>
         /\ trace.settled = "rejected" =>
              \E i \in 1..Len(LoadedPath) : LoadedPath[i].type = "FAILURE"
         /\ trace.settled = "resolved" =>
              \A i \in 1..Len(LoadedPath) : LoadedPath[i].type # "FAILURE"
         /\ "failure" \in tested => trace.settled = "rejected")

C25_Witness ==
  /\ frameUrl # <<>>
  /\ UrlHasFailure(frameUrl)
  /\ Len(decisions) = 1 /\ decisions[1].action = "reject"
  /\ trace.settled = "rejected"
  /\ state = "failure"
  /\ "failure" \in tested

====
